---- MODULE Spec2Model ----
(***************************************************************************)
(* Model of minio_utils/setup_minio_client.py: class MinioConfig.           *)
(*                                                                         *)
(* Python and JSON values are records with a field t:                       *)
(*   [t |-> "null"]                None / JSON null                         *)
(*   [t |-> "str",  s |-> seq]     a string, seq its characters             *)
(*   [t |-> "num",  n |-> i]       a number                                 *)
(*   [t |-> "list", n |-> i]       a list of i items                        *)
(*   [t |-> "obj",  o |-> f]       a dict, f a function from its keys        *)
(* Files are text files: a file's content is either text that is not JSON   *)
(* or the JSON value it parses to.                                          *)
(***************************************************************************)
EXTENDS Integers, Sequences, FiniteSets, TLC

VARIABLES
    config_file_path,       \* self.config_file_path
    configs,                \* self.configs
    endpoint_url,           \* self.endpoint_url
    aws_access_key_id,      \* self.aws_access_key_id
    aws_secret_access_key,  \* self.aws_secret_access_key
    region_name,            \* self.region_name
    signature_version,      \* self.signature_version
    fs,                     \* the directory of the configuration file: path -> content
    lastOp,                 \* the method that returned or raised last
    lastErr,                \* "ok" or the error it raised
    machine_name,           \* argument of the last select_machine
    mac_ip,                 \* local of the last adjust_endpoint_ip (None when not run)
    current_ip,             \* local of the last adjust_endpoint_ip (None when not run)
    clientArgs,             \* keyword arguments of the last boto3.client call, or NoCall
    selected                \* how many select_machine calls have returned (up to MaxSelected)

vars == <<config_file_path, configs, endpoint_url, aws_access_key_id,
          aws_secret_access_key, region_name, signature_version, fs,
          lastOp, lastErr, machine_name, mac_ip, current_ip, clientArgs, selected>>

----------------------------------------------------------------------------
(* Bounds *)

MaxUrlLen == 3

MaxSelected == 2

----------------------------------------------------------------------------
(* Python values *)

None == [t |-> "null"]

Str(s) == [t |-> "str", s |-> s]

Obj(f) == [t |-> "obj", o |-> f]

\* Python truth value of a value (what `not x` and all([...]) test)
Truthy(v) ==
    CASE v.t = "null" -> FALSE
      [] v.t = "str"  -> v.s # <<>>
      [] v.t = "num"  -> v.n # 0
      [] v.t = "list" -> v.n # 0
      [] v.t = "obj"  -> DOMAIN v.o # {}

\* dict.get(key, default)
DictGet(d, key, default) == IF key \in DOMAIN d.o THEN d.o[key] ELSE default

\* s.startswith(p)
StartsWith(s, p) == Len(p) <= Len(s) /\ SubSeq(s, 1, Len(p)) = p

\* old in s
Contains(s, old) == \E i \in 1..(Len(s) - Len(old) + 1) : SubSeq(s, i, i + Len(old) - 1) = old

RECURSIVE StrReplaceFirstOnly(_, _, _)
StrReplaceFirstOnly(s, old, new) ==
    IF Len(s) < Len(old) \/ old = <<>> THEN s
    ELSE IF StartsWith(s, old) THEN new \o SubSeq(s, Len(old) + 1, Len(s))
    ELSE <<Head(s)>> \o StrReplaceFirstOnly(Tail(s), old, new)

\* str.replace(old, new): every non-overlapping occurrence, leftmost first
RECURSIVE StrReplace(_, _, _)
StrReplace(s, old, new) ==
    IF old = <<>> THEN
        IF s = <<>> THEN new ELSE new \o <<Head(s)>> \o StrReplace(Tail(s), old, new)
    ELSE IF Len(s) < Len(old) THEN s
    ELSE IF StartsWith(s, old) THEN new \o StrReplace(SubSeq(s, Len(old) + 1, Len(s)), old, new)
    ELSE <<Head(s)>> \o StrReplace(Tail(s), old, new)

----------------------------------------------------------------------------
(* The resolver object *)

Self == [config_file_path      |-> config_file_path,
         configs               |-> configs,
         endpoint_url          |-> endpoint_url,
         aws_access_key_id     |-> aws_access_key_id,
         aws_secret_access_key |-> aws_secret_access_key,
         region_name           |-> region_name,
         signature_version     |-> signature_version]

DEFAULT_CONFIG_FILE_PATH == "minio_configs.json"

OtherPath == "other.json"

Paths == {DEFAULT_CONFIG_FILE_PATH, OtherPath}

\* MinioConfig.__init__
MinioConfigInit ==
    [config_file_path      |-> DEFAULT_CONFIG_FILE_PATH,
     configs               |-> None,
     endpoint_url          |-> None,
     aws_access_key_id     |-> None,
     aws_secret_access_key |-> None,
     region_name           |-> None,
     signature_version     |-> None]

\* Result of a method: the object afterwards and "ok" or the error raised
Ret(self, err) == [self |-> self, err |-> err]

----------------------------------------------------------------------------
(* The file system and the console *)

NoFile == [t |-> "nofile"]

\* text that json.load rejects with JSONDecodeError
NotJson == [t |-> "notjson"]

\* Path.exists()
Exists(p) == fs[p].t # "nofile"

\* the possible results of list(parent.glob('*.json')): the files present, in any order
GlobJson ==
    LET present == {p \in Paths : Exists(p)}
    IN  {f \in [1..Cardinality(present) -> present] : \A i, j \in DOMAIN f : i # j => f[i] # f[j]}

\* what the user may type at the prompt: a number or something int() rejects
ConsoleInputs == {[num |-> FALSE, n |-> 0]} \cup {[num |-> TRUE, n |-> i] : i \in 0..2}

\* nothing is typed when input() is not called
NoInput == [num |-> FALSE, n |-> 0]

----------------------------------------------------------------------------
(* Methods of MinioConfig.  Each takes the object and the method's inputs   *)
(* (arguments and what the environment answers) and gives Ret(self', err).  *)

\* prompt_for_config_file: [path, err]
prompt_for_config_file(self, available_files, typed) ==
    IF available_files = <<>> THEN [path |-> self.config_file_path, err |-> "FileNotFound"]
    ELSE IF ~typed.num THEN [path |-> self.config_file_path, err |-> "InvalidLiteral"]
    ELSE LET file_choice == typed.n - 1
         IN  IF 0 <= file_choice /\ file_choice < Len(available_files)
             THEN [path |-> available_files[file_choice + 1], err |-> "ok"]
             ELSE [path |-> self.config_file_path, err |-> "InvalidSelection"]

\* get_valid_config_path: [path, err]
get_valid_config_path(self, available_files, typed) ==
    IF Exists(self.config_file_path)
    THEN [path |-> self.config_file_path, err |-> "ok"]
    ELSE prompt_for_config_file(self, available_files, typed)

read_config_unchecked(path) ==
    [value |-> IF fs[path].t = "notjson" THEN Obj(<<>>) ELSE fs[path], err |-> "ok"]

\* read_config: [value, err]
read_config(path) ==
    IF fs[path].t = "notjson"
    THEN [value |-> None, err |-> "ConfigFormat"]
    ELSE [value |-> fs[path], err |-> "ok"]

\* load_config
load_config(self, available_files, typed) ==
    LET p == get_valid_config_path(self, available_files, typed)
    IN  IF p.err # "ok" THEN Ret(self, p.err)
        ELSE LET s1 == [self EXCEPT !.config_file_path = p.path]
                 r  == read_config(p.path)
             IN  IF r.err # "ok" THEN Ret(s1, r.err)
                 ELSE Ret([s1 EXCEPT !.configs = r.value], "ok")

ensure_configs_loaded_never(self) == "ok"

\* ensure_configs_loaded: err
ensure_configs_loaded(self) ==
    IF ~Truthy(self.configs) THEN "NotLoaded" ELSE "ok"

\* get_machine_config: [config, err]
get_machine_config(self, name) ==
    IF self.configs.t # "obj" THEN [config |-> None, err |-> "AttributeError"]
    ELSE LET config == DictGet(self.configs, name, None)
         IN  IF ~Truthy(config) THEN [config |-> None, err |-> "UnknownProfile"]
             ELSE [config |-> config, err |-> "ok"]

validate_attributes_two(self) ==
    IF ~(Truthy(self.endpoint_url) /\ Truthy(self.aws_access_key_id))
    THEN "MissingAttributes" ELSE "ok"

\* validate_attributes: err
validate_attributes(self) ==
    IF ~(Truthy(self.endpoint_url) /\ Truthy(self.aws_access_key_id)
         /\ Truthy(self.aws_secret_access_key))
    THEN "MissingAttributes" ELSE "ok"

set_connection_attributes_keep(self, config) ==
    IF config.t # "obj" THEN Ret(self, "AttributeError")
    ELSE LET s1 == [self EXCEPT
                      !.endpoint_url          = DictGet(config, "endpoint_url", None),
                      !.aws_access_key_id     = DictGet(config, "aws_access_key_id", None),
                      !.aws_secret_access_key = DictGet(config, "aws_secret_access_key", None),
                      !.region_name           = DictGet(config, "region_name",
                                                  IF Truthy(self.region_name) THEN self.region_name
                                                  ELSE Str(<<"us-east-1">>)),
                      !.signature_version     = DictGet(config, "signature_version", Str(<<"s3v4">>))]
         IN  Ret(s1, validate_attributes(s1))

set_connection_attributes_copy(self, config) ==
    IF config.t # "obj" THEN Ret(self, "AttributeError")
    ELSE LET s1 == [self EXCEPT
                      !.endpoint_url          = DictGet(config, "endpoint_url", None),
                      !.aws_access_key_id     = DictGet(config, "aws_access_key_id", None),
                      !.aws_secret_access_key = DictGet(config, "aws_access_key_id", None),
                      !.region_name           = DictGet(config, "region_name", Str(<<"us-east-1">>)),
                      !.signature_version     = DictGet(config, "signature_version", Str(<<"s3v4">>))]
         IN  Ret(s1, validate_attributes(s1))

\* set_connection_attributes
set_connection_attributes(self, config) ==
    IF config.t # "obj" THEN Ret(self, "AttributeError")
    ELSE LET s1 == [self EXCEPT
                      !.endpoint_url          = DictGet(config, "endpoint_url", None),
                      !.aws_access_key_id     = DictGet(config, "aws_access_key_id", None),
                      !.aws_secret_access_key = DictGet(config, "aws_secret_access_key", None),
                      !.region_name           = DictGet(config, "region_name", Str(<<"us-east-1">>)),
                      !.signature_version     = DictGet(config, "signature_version", Str(<<"s3v4">>))]
         IN  Ret(s1, validate_attributes(s1))

adjust_endpoint_ip_first(self, mac, cur) ==
    IF cur = None THEN Ret(self, "gaierror")
    ELSE IF Truthy(mac) /\ cur # mac /\ Truthy(self.endpoint_url)
    THEN IF self.endpoint_url.t # "str" THEN Ret(self, "AttributeError")
         ELSE Ret([self EXCEPT !.endpoint_url =
                       Str(StrReplaceFirstOnly(self.endpoint_url.s, mac.s, cur.s))], "ok")
    ELSE Ret(self, "ok")

adjust_endpoint_ip_strict(self, mac, cur) ==
    IF mac = None \/ cur = None THEN Ret(self, "gaierror")
    ELSE IF cur # mac /\ Truthy(self.endpoint_url)
    THEN IF self.endpoint_url.t # "str" THEN Ret(self, "AttributeError")
         ELSE Ret([self EXCEPT !.endpoint_url =
                       Str(StrReplace(self.endpoint_url.s, mac.s, cur.s))], "ok")
    ELSE Ret(self, "ok")

\* adjust_endpoint_ip.  mac is what get_mac_ip returns (None when the reference
\* hostname does not resolve); cur is gethostbyname(gethostname()), None standing
\* for its socket.gaierror, which nothing catches.
adjust_endpoint_ip(self, mac, cur) ==
    IF cur = None THEN Ret(self, "gaierror")
    ELSE IF Truthy(mac) /\ cur # mac /\ Truthy(self.endpoint_url)
    THEN IF self.endpoint_url.t # "str" THEN Ret(self, "AttributeError")
         ELSE Ret([self EXCEPT !.endpoint_url =
                       Str(StrReplace(self.endpoint_url.s, mac.s, cur.s))], "ok")
    ELSE Ret(self, "ok")

\* select_machine.  ran tells whether adjust_endpoint_ip was reached.
select_machine(self, name, mac, cur) ==
    LET e == ensure_configs_loaded(self)
    IN  IF e # "ok" THEN [self |-> self, err |-> e, ran |-> FALSE]
        ELSE LET c == get_machine_config(self, name)
             IN  IF c.err # "ok" THEN [self |-> self, err |-> c.err, ran |-> FALSE]
                 ELSE LET s == set_connection_attributes(self, c.config)
                      IN  IF s.err # "ok" THEN [self |-> s.self, err |-> s.err, ran |-> FALSE]
                          ELSE LET a == adjust_endpoint_ip(s.self, mac, cur)
                               IN  [self |-> a.self, err |-> a.err, ran |-> TRUE]

NoCall == [t |-> "nocall"]

\* the keyword arguments get_minio_client gives boto3.client
ClientKwargs(self) ==
    [t |-> "call",
     endpoint_url          |-> self.endpoint_url,
     aws_access_key_id     |-> self.aws_access_key_id,
     aws_secret_access_key |-> self.aws_secret_access_key,
     signature_version     |-> self.signature_version,
     region_name           |-> self.region_name]

get_minio_client_unchecked(self, clientOk) ==
    [err |-> IF clientOk THEN "ok" ELSE "ClientError", call |-> ClientKwargs(self)]

\* get_minio_client: [err, call].  clientOk: whether boto3.client returns or raises.
get_minio_client(self, clientOk) ==
    LET e == validate_attributes(self)
    IN  IF e # "ok" THEN [err |-> e, call |-> NoCall]
        ELSE [err |-> IF clientOk THEN "ok" ELSE "ClientError", call |-> ClientKwargs(self)]

----------------------------------------------------------------------------
(* The inputs the model draws from *)

UrlChars == {"1", "/"}

\* endpoint_url strings: the non-empty strings of at most MaxUrlLen characters
Urls == UNION {[1..n -> UrlChars] : n \in 1..MaxUrlLen}

\* the addresses the reference hostname may resolve to; "1" is a prefix of "11"
MacIPs == {<<"1">>, <<"1", "1">>}

\* the addresses the current hostname may resolve to
CurrentIPs == MacIPs \cup {<<"2">>}

\* what get_mac_ip may return (None: socket.gaierror, caught)
MacResolutions == {None} \cup {Str(ip) : ip \in MacIPs}

\* what gethostbyname(gethostname()) may give (None: socket.gaierror, not caught)
CurrentResolutions == {None} \cup {Str(ip) : ip \in CurrentIPs}

Omitted == [t |-> "omitted"]

\* a JSON object from the choice made for each key (Omitted: the key is left out)
MkObj(choice) == Obj([k \in {k \in DOMAIN choice : choice[k] # Omitted} |-> choice[k]])

MkProfile(e, a, s, r, g) ==
    MkObj([endpoint_url |-> e, aws_access_key_id |-> a, aws_secret_access_key |-> s,
           region_name |-> r, signature_version |-> g])

EndpointChoices == {Omitted, None, Str(<<>>), Str(<<"/", "1">>)}

AccessKeyChoices == {Omitted, Str(<<>>), Str(<<"AK">>)}

SecretKeyChoices == {Omitted, Str(<<>>), Str(<<"SK">>)}

RegionChoices == {Omitted, None, Str(<<"eu-west-1">>)}

SignatureChoices == {Omitted, Str(<<"s3">>)}

\* the attribute objects stored under "mac": every endpoint string with the other
\* attributes in place; every way of leaving out or emptying the required
\* attributes; every way of giving or leaving out the optional ones
MacProfiles ==
    {MkProfile(Str(u), Str(<<"AK">>), Str(<<"SK">>), Omitted, Omitted) : u \in Urls}
    \cup {MkProfile(e, a, s, Omitted, Omitted) :
            e \in EndpointChoices, a \in AccessKeyChoices, s \in SecretKeyChoices}
    \cup {MkProfile(Str(<<"/", "1">>), Str(<<"AK">>), Str(<<"SK">>), r, g) :
            r \in RegionChoices, g \in SignatureChoices}

\* the attribute object stored under "pi": complete, every value its own
PiProfile ==
    MkProfile(Str(<<"1", "/", "1">>), Str(<<"AK2">>), Str(<<"SK2">>),
              Str(<<"ap-south-1">>), Str(<<"s3v2">>))

\* values that are not attribute objects
NonObjects == {None, Str(<<"x">>), [t |-> "num", n |-> 7], [t |-> "list", n |-> 0],
               [t |-> "list", n |-> 2]}

\* the JSON objects a file may hold: the empty one, and "pi" beside whatever is
\* (or is not) stored under "mac"
JsonObjects ==
    {Obj(<<>>)} \cup
    {MkObj([mac |-> m, pi |-> PiProfile]) : m \in {Omitted} \cup NonObjects \cup MacProfiles}

\* what the default configuration file may hold
Contents == {NotJson} \cup NonObjects \cup JsonObjects

\* what the other JSON file of the directory holds when there is one
OtherContent == MkObj([mac |-> Omitted, pi |-> PiProfile])

\* the names select_machine is called with; "nas" is in no file
MachineNames == {"mac", "pi", "nas"}

\* the default of setup_default_client's machine_name
DefaultMachine == "mac"

----------------------------------------------------------------------------
(* State machine *)

SetSelf(self) ==
    /\ config_file_path' = self.config_file_path
    /\ configs' = self.configs
    /\ endpoint_url' = self.endpoint_url
    /\ aws_access_key_id' = self.aws_access_key_id
    /\ aws_secret_access_key' = self.aws_secret_access_key
    /\ region_name' = self.region_name
    /\ signature_version' = self.signature_version

Init ==
    /\ config_file_path = MinioConfigInit.config_file_path
    /\ configs = MinioConfigInit.configs
    /\ endpoint_url = MinioConfigInit.endpoint_url
    /\ aws_access_key_id = MinioConfigInit.aws_access_key_id
    /\ aws_secret_access_key = MinioConfigInit.aws_secret_access_key
    /\ region_name = MinioConfigInit.region_name
    /\ signature_version = MinioConfigInit.signature_version
    /\ \/ \E c \in Contents :
              fs = [q \in Paths |-> IF q = DEFAULT_CONFIG_FILE_PATH THEN c ELSE NoFile]
       \/ \E o \in {NoFile, OtherContent} :
              fs = [q \in Paths |-> IF q = DEFAULT_CONFIG_FILE_PATH THEN NoFile ELSE o]
    /\ lastOp = "__init__"
    /\ lastErr = "ok"
    /\ machine_name = ""
    /\ mac_ip = None
    /\ current_ip = None
    /\ clientArgs = NoCall
    /\ selected = 0

\* the count of returned select_machine calls after one more call ending in err
Count(err) == IF err = "ok" /\ selected < MaxSelected THEN selected + 1 ELSE selected

\* whether load_config() gets to input()
Prompts(self) == ~Exists(self.config_file_path) /\ \E p \in Paths : Exists(p)

\* whether select_machine(name) gets to adjust_endpoint_ip, which resolves the hostnames
Resolves(self, name) == select_machine(self, name, None, None).ran

\* whether get_minio_client() gets to boto3.client
Constructs(self) == get_minio_client(self, TRUE).call # NoCall

\* load_config()
LoadConfig ==
    \E available_files \in GlobJson,
       typed \in IF Prompts(Self) THEN ConsoleInputs ELSE {NoInput} :
        LET r == load_config(Self, available_files, typed)
        IN  /\ SetSelf(r.self)
            /\ lastOp' = "load_config"
            /\ lastErr' = r.err
            /\ machine_name' = ""
            /\ mac_ip' = None
            /\ current_ip' = None
            /\ clientArgs' = NoCall
            /\ UNCHANGED <<fs, selected>>

\* list_machines(): raises unless loaded, changes nothing
ListMachines ==
    /\ lastOp' = "list_machines"
    /\ lastErr' = IF ensure_configs_loaded(Self) # "ok" THEN ensure_configs_loaded(Self)
                  ELSE IF configs.t # "obj" THEN "AttributeError" ELSE "ok"
    /\ machine_name' = ""
    /\ mac_ip' = None
    /\ current_ip' = None
    /\ clientArgs' = NoCall
    /\ UNCHANGED <<config_file_path, configs, endpoint_url, aws_access_key_id,
                   aws_secret_access_key, region_name, signature_version, fs, selected>>

\* select_machine(name)
SelectMachine ==
    \E name \in MachineNames :
    \E mac \in IF Resolves(Self, name) THEN MacResolutions ELSE {None},
       cur \in IF Resolves(Self, name) THEN CurrentResolutions ELSE {None} :
        LET r == select_machine(Self, name, mac, cur)
        IN  /\ SetSelf(r.self)
            /\ lastOp' = "select_machine"
            /\ lastErr' = r.err
            /\ machine_name' = name
            /\ mac_ip' = mac
            /\ current_ip' = cur
            /\ clientArgs' = NoCall
            /\ selected' = Count(r.err)
            /\ UNCHANGED fs

\* get_minio_client()
GetMinioClient ==
    \E clientOk \in IF Constructs(Self) THEN BOOLEAN ELSE {TRUE} :
        LET r == get_minio_client(Self, clientOk)
        IN  /\ lastOp' = "get_minio_client"
            /\ lastErr' = r.err
            /\ machine_name' = ""
            /\ mac_ip' = None
            /\ current_ip' = None
            /\ clientArgs' = r.call
            /\ UNCHANGED <<config_file_path, configs, endpoint_url, aws_access_key_id,
                           aws_secret_access_key, region_name, signature_version, fs, selected>>

\* setup_default_client(), machine_name left at its default: load_config,
\* select_machine, get_minio_client and test_connection, which catches every
\* exception and changes nothing
SetupDefaultClient ==
    \E name \in {DefaultMachine}, available_files \in GlobJson,
       typed \in IF Prompts(Self) THEN ConsoleInputs ELSE {NoInput} :
        LET l == load_config(Self, available_files, typed)
        IN  IF l.err # "ok"
            THEN /\ SetSelf(l.self)
                 /\ lastOp' = "setup_default_client"
                 /\ lastErr' = l.err
                 /\ machine_name' = ""
                 /\ mac_ip' = None
                 /\ current_ip' = None
                 /\ clientArgs' = NoCall
                 /\ UNCHANGED <<fs, selected>>
            ELSE \E mac \in IF Resolves(l.self, name) THEN MacResolutions ELSE {None},
                    cur \in IF Resolves(l.self, name) THEN CurrentResolutions ELSE {None} :
                    LET s == select_machine(l.self, name, mac, cur)
                    IN  \E clientOk \in IF s.err = "ok" /\ Constructs(s.self)
                                        THEN BOOLEAN ELSE {TRUE} :
                            LET c == get_minio_client(s.self, clientOk)
                            IN  /\ SetSelf(s.self)
                                /\ lastOp' = "setup_default_client"
                                /\ lastErr' = IF s.err # "ok" THEN s.err ELSE c.err
                                /\ machine_name' = name
                                /\ mac_ip' = mac
                                /\ current_ip' = cur
                                /\ clientArgs' = IF s.err = "ok" THEN c.call ELSE NoCall
                                /\ selected' = Count(s.err)
                                /\ UNCHANGED fs

\* the environment overwrites a configuration file with text that is not JSON
CorruptFile ==
    \E p \in Paths :
        /\ Exists(p)
        /\ fs[p] # NotJson
        /\ fs' = [fs EXCEPT ![p] = NotJson]
        /\ UNCHANGED <<config_file_path, configs, endpoint_url, aws_access_key_id,
                       aws_secret_access_key, region_name, signature_version,
                       lastOp, lastErr, machine_name, mac_ip, current_ip, clientArgs,
                       selected>>

Next ==
    \/ LoadConfig
    \/ ListMachines
    \/ SelectMachine
    \/ GetMinioClient
    \/ SetupDefaultClient
    \/ CorruptFile

Spec == Init /\ [][Next]_vars

----------------------------------------------------------------------------
(* Properties *)

Required == {"endpoint_url", "aws_access_key_id", "aws_secret_access_key"}

\* the last call was select_machine(machine_name) on a loaded JSON object that has
\* an attribute object under machine_name
SelectedPresent ==
    /\ lastOp = "select_machine"
    /\ configs.t = "obj"
    /\ machine_name \in DOMAIN configs.o
    /\ configs.o[machine_name].t = "obj"

\* the attribute object of the machine selected last
Profile == configs.o[machine_name].o

\* attribute k of Profile is absent or empty
Lacks(k) == k \notin DOMAIN Profile \/ Profile[k] = None \/ Profile[k] = Str(<<>>)

\* the last call was select_machine on a profile with its three required attributes
SelectedComplete == SelectedPresent /\ \A k \in Required : ~Lacks(k)

\* C1: select_machine on a resolver whose configs was never set raises the "has
\* not been loaded" error, whatever the name, and resolves no hostname
C1_SelectBeforeLoad ==
    (lastOp = "select_machine" /\ configs = None)
        => (lastErr = "NotLoaded" /\ mac_ip = None /\ current_ip = None)

C1_Witness ==
    /\ lastOp = "select_machine"
    /\ configs = None
    /\ lastErr = "NotLoaded"
    /\ machine_name = "mac"
    /\ endpoint_url = None

\* C2: on a loaded JSON object, select_machine(name) raises the "not found"
\* error, and no other, whenever name is not a key or its value is falsy
C2_UnknownProfile ==
    (/\ lastOp = "select_machine"
     /\ configs.t = "obj"
     /\ (machine_name \notin DOMAIN configs.o \/ ~Truthy(configs.o[machine_name])))
        => lastErr = "UnknownProfile"

\* C3 as stated: select_machine on a present profile lacking a required attribute
\* raises the "missing required attributes" error
C3_MissingAttributes_Original ==
    (SelectedPresent /\ \E k \in Required : Lacks(k)) => lastErr = "MissingAttributes"

\* C3 amended: the same, for a present profile that is not the empty object
C3_MissingAttributes ==
    (SelectedPresent /\ Profile # <<>> /\ \E k \in Required : Lacks(k))
        => lastErr = "MissingAttributes"

C3_Witness ==
    /\ SelectedPresent
    /\ ~Lacks("endpoint_url")
    /\ ~Lacks("aws_access_key_id")
    /\ "aws_secret_access_key" \notin DOMAIN Profile
    /\ lastErr = "MissingAttributes"

\* C4: after a successful select_machine the two keys are the profile's, and the
\* region and signature version are the profile's or, with the key omitted,
\* "us-east-1" and "s3v4"
C4_AttributesAndDefaults ==
    (SelectedPresent /\ lastErr = "ok") =>
        /\ aws_access_key_id = Profile["aws_access_key_id"]
        /\ aws_secret_access_key = Profile["aws_secret_access_key"]
        /\ region_name = IF "region_name" \in DOMAIN Profile
                         THEN Profile["region_name"] ELSE Str(<<"us-east-1">>)
        /\ signature_version = IF "signature_version" \in DOMAIN Profile
                               THEN Profile["signature_version"] ELSE Str(<<"s3v4">>)

C4_Witness ==
    /\ SelectedPresent
    /\ lastErr = "ok"
    /\ "region_name" \notin DOMAIN Profile
    /\ "signature_version" \in DOMAIN Profile
    /\ region_name = Str(<<"us-east-1">>)
    /\ selected = 2

\* where the occurrences of old that a left-to-right scan of s from index i replaces begin
RECURSIVE MatchStarts(_, _, _)
MatchStarts(s, old, i) ==
    IF i + Len(old) - 1 > Len(s) THEN {}
    ELSE IF SubSeq(s, i, i + Len(old) - 1) = old
         THEN {i} \cup MatchStarts(s, old, i + Len(old))
         ELSE MatchStarts(s, old, i + 1)

\* where in the rewritten string the replacement of the occurrence at m begins
NewStart(s, old, new, m) ==
    m + (Len(new) - Len(old)) * Cardinality({k \in MatchStarts(s, old, 1) : k < m})

\* r is s with each of those occurrences of old replaced by new and the rest kept
IsRewrite(s, old, new, r) ==
    LET M == MatchStarts(s, old, 1)
        d == Len(new) - Len(old)
    IN  /\ Len(r) = Len(s) + d * Cardinality(M)
        /\ \A m \in M : SubSeq(r, NewStart(s, old, new, m), NewStart(s, old, new, m) + Len(new) - 1) = new
        /\ \A i \in 1..Len(s) :
               (\A m \in M : i < m \/ i >= m + Len(old))
                   => r[i + d * Cardinality({m \in M : m < i})] = s[i]

\* the last select_machine succeeded with both hostnames resolved to different
\* addresses and the reference address occurring in the profile's endpoint_url
Rewritten ==
    /\ SelectedComplete
    /\ lastErr = "ok"
    /\ mac_ip # None
    /\ current_ip # None
    /\ mac_ip # current_ip
    /\ Contains(Profile["endpoint_url"].s, mac_ip.s)

\* the reference address begins at no place of endpoint_url where it was replaced
GoneWhereReplaced ==
    \A m \in MatchStarts(Profile["endpoint_url"].s, mac_ip.s, 1) :
        ~StartsWith(SubSeq(endpoint_url.s,
                           NewStart(Profile["endpoint_url"].s, mac_ip.s, current_ip.s, m),
                           Len(endpoint_url.s)),
                    mac_ip.s)

\* C5 as stated: the endpoint_url is the profile's with every occurrence of the
\* reference address replaced by the current one, and the reference address no
\* longer occurs where it was replaced
C5_Rewrite_Original ==
    Rewritten =>
        /\ endpoint_url.t = "str"
        /\ IsRewrite(Profile["endpoint_url"].s, mac_ip.s, current_ip.s, endpoint_url.s)
        /\ GoneWhereReplaced

\* C5 amended: the reference address no longer occurs where it was replaced when
\* neither address is a prefix of the other
C5_Rewrite ==
    Rewritten =>
        /\ endpoint_url.t = "str"
        /\ IsRewrite(Profile["endpoint_url"].s, mac_ip.s, current_ip.s, endpoint_url.s)
        /\ (~StartsWith(current_ip.s, mac_ip.s) /\ ~StartsWith(mac_ip.s, current_ip.s))
               => GoneWhereReplaced

C5_Witness ==
    /\ Rewritten
    /\ Cardinality(MatchStarts(Profile["endpoint_url"].s, mac_ip.s, 1)) = 2
    /\ ~StartsWith(current_ip.s, mac_ip.s)
    /\ ~StartsWith(mac_ip.s, current_ip.s)
    /\ ~Contains(endpoint_url.s, mac_ip.s)

\* the endpoint_url is the profile's and select_machine returned
Untouched == lastErr = "ok" /\ endpoint_url = Profile["endpoint_url"]

\* C6 as stated: select_machine returns with the profile's endpoint_url when the
\* reference hostname does not resolve, when the two addresses are equal, and when
\* they differ and the reference address does not occur in the endpoint_url
C6_Untouched_Original ==
    SelectedComplete =>
        /\ mac_ip = None => Untouched
        /\ (mac_ip # None /\ mac_ip = current_ip) => Untouched
        /\ (mac_ip # None /\ current_ip # None /\ mac_ip # current_ip
              /\ ~Contains(Profile["endpoint_url"].s, mac_ip.s)) => Untouched

\* C6 amended: in the first case, when the current hostname resolves
C6_Untouched ==
    SelectedComplete =>
        /\ (mac_ip = None /\ current_ip # None) => Untouched
        /\ (mac_ip # None /\ mac_ip = current_ip) => Untouched
        /\ (mac_ip # None /\ current_ip # None /\ mac_ip # current_ip
              /\ ~Contains(Profile["endpoint_url"].s, mac_ip.s)) => Untouched

C6_Witness ==
    /\ SelectedComplete
    /\ mac_ip = None
    /\ current_ip # None
    /\ Contains(Profile["endpoint_url"].s, current_ip.s)
    /\ Untouched

\* the step is a load_config call that read text that is not JSON
LoadsNotJson ==
    /\ lastOp' = "load_config"
    /\ fs' = fs
    /\ fs[config_file_path'].t = "notjson"

\* C7: load_config on a file that is not JSON raises the "Invalid JSON format"
\* error and leaves configs as it was
C7_MalformedLoad ==
    [][LoadsNotJson => (lastErr' = "ConfigFormat" /\ configs' = configs)]_vars

C7_Witness ==
    /\ lastOp = "load_config"
    /\ lastErr = "ConfigFormat"
    /\ fs[config_file_path] = NotJson
    /\ configs.t = "obj"
    /\ "mac" \in DOMAIN configs.o

\* v is an object whose values are all objects
IsDocument(v) == v.t = "obj" /\ \A k \in DOMAIN v.o : v.o[k].t = "obj"

\* C8: a load_config that returns has set configs to an object of objects
\* (JSON of any other shape raises the "Invalid JSON format" error)
C8_ShapeChecked ==
    (lastOp = "load_config" /\ lastErr = "ok") => IsDocument(configs)

\* the five attributes of an object
Attributes(self) ==
    <<self.endpoint_url, self.aws_access_key_id, self.aws_secret_access_key,
      self.region_name, self.signature_version>>

\* what select_machine(machine_name) gives on a new MinioConfig holding configs,
\* with the hostnames resolving as in the last call
SingleSelection ==
    select_machine([MinioConfigInit EXCEPT !.configs = configs],
                   machine_name, mac_ip, current_ip)

\* C9: after a select_machine that returned, whatever was selected before, the
\* five attributes are those of a single selection of that machine with the
\* addresses of that call
C9_LastSelectionOnly ==
    (lastOp = "select_machine" /\ lastErr = "ok") =>
        /\ SingleSelection.err = "ok"
        /\ Attributes(Self) = Attributes(SingleSelection.self)

C9_Witness ==
    /\ lastOp = "select_machine"
    /\ lastErr = "ok"
    /\ selected = 2
    /\ machine_name = "mac"
    /\ "region_name" \notin DOMAIN Profile
    /\ endpoint_url # Profile["endpoint_url"]
    /\ Attributes(Self) = Attributes(SingleSelection.self)

\* the three required attributes the object holds are all non-empty
HoldsRequired ==
    /\ endpoint_url # None /\ endpoint_url # Str(<<>>)
    /\ aws_access_key_id # None /\ aws_access_key_id # Str(<<>>)
    /\ aws_secret_access_key # None /\ aws_secret_access_key # Str(<<>>)

\* C10: get_minio_client calls boto3.client only with the attributes the object
\* holds and only when the three required ones are non-empty; otherwise it raises
\* the "missing required attributes" error and makes no call
C10_ClientOnlyWhenComplete ==
    lastOp = "get_minio_client" =>
        /\ clientArgs # NoCall =>
               /\ HoldsRequired
               /\ clientArgs.endpoint_url = endpoint_url
               /\ clientArgs.aws_access_key_id = aws_access_key_id
               /\ clientArgs.aws_secret_access_key = aws_secret_access_key
               /\ clientArgs.region_name = region_name
               /\ clientArgs.signature_version = signature_version
        /\ ~HoldsRequired => (lastErr = "MissingAttributes" /\ clientArgs = NoCall)
        /\ HoldsRequired => clientArgs # NoCall

C10_Witness ==
    /\ lastOp = "get_minio_client"
    /\ lastErr = "MissingAttributes"
    /\ clientArgs = NoCall
    /\ endpoint_url # None
    /\ aws_access_key_id # None
    /\ aws_secret_access_key = None

====
